---- MODULE Spec2Model ----
(***************************************************************************)
(* Model of troubleshooting/create_snapshot.py: the retrying command       *)
(* executor (run_cmd), the object lister (get_kubectl_list) and the        *)
(* traversal and packaging done by main.                                   *)
(*                                                                         *)
(* Strings are sequences of pieces.  A piece is either one character of a  *)
(* cluster-supplied name or of a command's output (Chars), or a fixed word *)
(* of a command template, which holds neither a space nor an underscore.   *)
(***************************************************************************)
EXTENDS Integers, Sequences, FiniteSets, TLC

(* ------------------------------ bounds --------------------------------- *)

\* longest standard output fed to the list parser on its own (SpecParse)
MaxLen == 5
\* most namespaces the cluster holds during a traversal
MaxNamespaces == 2

(* --------------------------- program constants ------------------------- *)

BACKOFF_LIMIT == 4
CMD_TIMEOUT_SEC == 15

(* ------------------------------ strings -------------------------------- *)

SP == " "
NL == "\n"
US == "_"
\* what str.strip() removes at both ends
Whitespace == {SP, NL}
\* characters of a standard output given to the parser on its own (jsonpath
\* prints names separated by spaces, without a newline)
ParseChars == {"a", "b", SP}
\* one-character namespace names the cluster holds during a traversal
NameChars == {"a", "b"}

StringsUpTo(A, n) == UNION {[1..k -> A] : k \in 0..n}

RECURSIVE LStrip(_)
LStrip(s) ==
    IF s # <<>> /\ Head(s) \in Whitespace THEN LStrip(Tail(s)) ELSE s

RECURSIVE RStrip(_)
RStrip(s) ==
    IF s # <<>> /\ s[Len(s)] \in Whitespace
    THEN RStrip(SubSeq(s, 1, Len(s) - 1)) ELSE s

\* str.strip()
Strip(s) == RStrip(LStrip(s))

\* str.split(' '): cut at every single space; always at least one token
RECURSIVE Split(_)
Split(s) ==
    IF \E i \in 1..Len(s) : s[i] = SP
    THEN LET i == CHOOSE j \in 1..Len(s) :
                     s[j] = SP /\ \A k \in 1..(j - 1) : s[k] # SP
         IN <<SubSeq(s, 1, i - 1)>> \o Split(SubSeq(s, i + 1, Len(s)))
    ELSE <<s>>

\* list.remove(x): drop the first element equal to x
RemoveFirst(l, x) ==
    LET i == CHOOSE j \in 1..Len(l) :
                 l[j] = x /\ \A k \in 1..(j - 1) : l[k] # x
    IN SubSeq(l, 1, i - 1) \o SubSeq(l, i + 1, Len(l))

Contains(l, x) == \E i \in 1..Len(l) : l[i] = x

\* obj_list = stdout.strip().split(' '); if '' in obj_list: obj_list.remove('')
ParseList(out) ==
    LET obj_list == Split(Strip(out))
    IN IF Contains(obj_list, <<>>) THEN RemoveFirst(obj_list, <<>>)
       ELSE obj_list

\* a plausible slip: str.replace(' ', '_', 1), only the first space replaced
RECURSIVE UnderscoredFirstOnly(_)
UnderscoredFirstOnly(s) ==
    IF s = <<>> THEN <<>>
    ELSE IF Head(s) = SP THEN <<US>> \o Tail(s)
    ELSE <<Head(s)>> \o UnderscoredFirstOnly(Tail(s))

\* str.replace(' ', '_')
Underscored(s) == [i \in 1..Len(s) |-> IF s[i] = SP THEN US ELSE s[i]]

RECURSIVE Concat(_)
Concat(ss) == IF ss = <<>> THEN <<>> ELSE Head(ss) \o Concat(Tail(ss))

\* words joined by single spaces: the literal text of a command template
RECURSIVE Words(_)
Words(ws) ==
    IF Len(ws) <= 1 THEN ws ELSE <<Head(ws), SP>> \o Words(Tail(ws))

\* str.format(**env): every placeholder piece replaced by its value
Format(template, env) ==
    Concat([i \in 1..Len(template) |->
              IF template[i] \in DOMAIN env THEN env[template[i]]
              ELSE <<template[i]>>])

(* ------------------------- command catalogs ---------------------------- *)

KUBECTL_GLOBAL_CMDS == <<
    Words(<<"kubectl", "version", "{kubeconfig_arg}", "--request-timeout", "{timeout}">>),
    Words(<<"kubectl", "cluster-info", "{kubeconfig_arg}", "--request-timeout", "{timeout}">>),
    Words(<<"kubectl", "get", "clusterroles", "-o", "wide", "{kubeconfig_arg}", "--request-timeout", "{timeout}">>),
    Words(<<"kubectl", "get", "clusterrolebindings", "-o", "wide", "{kubeconfig_arg}", "--request-timeout", "{timeout}">>),
    Words(<<"kubectl", "get", "crd", "-o", "wide", "{kubeconfig_arg}", "--request-timeout", "{timeout}">>),
    Words(<<"kubectl", "get", "nodes", "-o", "wide", "{kubeconfig_arg}", "--request-timeout", "{timeout}">>),
    Words(<<"kubectl", "get", "clusterroles", "-o", "yaml", "{kubeconfig_arg}", "--request-timeout", "{timeout}">>),
    Words(<<"kubectl", "get", "clusterrolebindings", "-o", "yaml", "{kubeconfig_arg}", "--request-timeout", "{timeout}">>),
    Words(<<"kubectl", "get", "crd", "-o", "yaml", "{kubeconfig_arg}", "--request-timeout", "{timeout}">>),
    Words(<<"kubectl", "get", "nodes", "-o", "yaml", "{kubeconfig_arg}", "--request-timeout", "{timeout}">>),
    Words(<<"kubectl", "describe", "clusterroles", "{kubeconfig_arg}", "--request-timeout", "{timeout}">>),
    Words(<<"kubectl", "describe", "clusterrolebindings", "{kubeconfig_arg}", "--request-timeout", "{timeout}">>),
    Words(<<"kubectl", "describe", "crd", "{kubeconfig_arg}", "--request-timeout", "{timeout}">>),
    Words(<<"kubectl", "describe", "nodes", "{kubeconfig_arg}", "--request-timeout", "{timeout}">>) >>

KUBECTL_PER_NS_CMDS == <<
    Words(<<"kubectl", "get", "all", "-o", "wide", "{kubeconfig_arg}", "--request-timeout", "{timeout}", "--namespace", "{namespace}">>),
    Words(<<"kubectl", "get", "all", "-o", "yaml", "{kubeconfig_arg}", "--request-timeout", "{timeout}", "--namespace", "{namespace}">>),
    Words(<<"kubectl", "describe", "all", "{kubeconfig_arg}", "--request-timeout", "{timeout}", "--namespace", "{namespace}">>) >>

KUBECTL_PER_POD_CMDS == <<
    Words(<<"kubectl", "logs", "{kubeconfig_arg}", "{pod}", "--container", "{container}", "--request-timeout", "{timeout}", "--namespace", "{namespace}">>) >>

\* the default jsonpath of get_kubectl_list and the one main passes for a pod
JsonpathItems == <<"{.items[*].metadata.name}">>
JsonpathContainers == <<"{.spec.containers[*].name}">>

\* the values parse_args and the head of main can give kubeconfig
KubeconfigArgs == {<<>>, <<"--kubeconfig", SP, "/tmp/kubeconfig">>}

\* timeout = "{}s".format(timeout), with the default of --timeout
TimeoutArg == <<ToString(CMD_TIMEOUT_SEC) \o "s">>

\* the query command get_kubectl_list builds
ListCmd(object_type, kc, ns, object_name, jsonpath) ==
    LET base == Format(<<"kubectl", SP, "get", SP, "{obj_type}", SP,
                         "{kubeconfig_arg}", SP, "--request-timeout", SP,
                         "{timeout}", SP, "-o", SP, "jsonpath=", "\"",
                         "{jsonpath}", "\"", SP, "{obj_name}">>,
                       [x \in {"{obj_type}", "{kubeconfig_arg}", "{timeout}",
                               "{jsonpath}", "{obj_name}"} |->
                          CASE x = "{obj_type}" -> <<object_type>>
                            [] x = "{kubeconfig_arg}" -> kc
                            [] x = "{timeout}" -> TimeoutArg
                            [] x = "{jsonpath}" -> jsonpath
                            [] x = "{obj_name}" -> object_name])
    IN IF ns # <<>> THEN base \o <<SP, "-n", SP>> \o ns ELSE base

\* cmd.format(kubeconfig_arg=..., timeout=..., namespace=..., pod=..., container=...)
FormatCmd(template, kc, ns, p, c) ==
    Format(template,
           [x \in {"{kubeconfig_arg}", "{timeout}", "{namespace}", "{pod}",
                   "{container}"} |->
              CASE x = "{kubeconfig_arg}" -> kc
                [] x = "{timeout}" -> TimeoutArg
                [] x = "{namespace}" -> ns
                [] x = "{pod}" -> p
                [] x = "{container}" -> c])

GlobalFolder == <<"global">>
\* a plausible slip: the namespace left out of the folder name
NamespaceFolderShared(ns) == <<"namespaces">>

\* 'namespaces/{}'.format(namespace)
NamespaceFolder(ns) == <<"namespaces", "/">> \o ns
\* 'namespaces/{}/{}'.format(namespace, pod)
PodFolder(ns, p) == <<"namespaces", "/">> \o ns \o <<"/">> \o p

\* pathlib drops empty components: repeated and trailing slashes vanish
RECURSIVE Normalize(_)
Normalize(path) ==
    IF path = <<>> THEN <<>>
    ELSE IF Head(path) = "/" /\ (Len(path) = 1 \/ path[2] = "/")
         THEN Normalize(Tail(path))
         ELSE <<Head(path)>> \o Normalize(Tail(path))

\* output_dir / subfolder / cmd.replace(' ', '_'), relative to output_dir
OutputPath(sub, c) == Normalize(sub \o <<"/">> \o Underscored(c))

\* the return value of get_kubectl_list: None, or a list
None == [isNone |-> TRUE, items |-> <<>>]
Some(l) == [isNone |-> FALSE, items |-> l]

(* ------------------------------- state --------------------------------- *)

VARIABLES
    kubeconfig,        \* main: the --kubeconfig argument text
    pc,                \* main: where main stands
    frame,             \* the function now running: main, run_cmd, get_kubectl_list
    callee,            \* the function main called last
    exc,               \* the exception that ended the run, or "none"
    exit_code,         \* the process exit code, -1 while running
    namespaces_list,   \* main: result of the namespace listing (None or a list)
    pods,              \* main: the pod list being iterated
    containers,        \* main: result of the container listing (None or a list)
    namespace, pod, container,   \* main: loop variables
    gi, ni, ci, pi, ki, li,      \* main: next index of each for-loop
    cmd, subfolder,    \* arguments of the running call
    backoff_timer, backoff_count,   \* locals of run_cmd / get_kubectl_list
    status,            \* what the call printed: "none", "DONE", "FAIL"
    outcomes,          \* per-attempt outcomes of the running call
    sleeps,            \* the delays the running call has slept
    ret,               \* return value of the last get_kubectl_list
    stdout,            \* a standard output handed to the list parser on its own
    tmp_exists,        \* the TemporaryDirectory exists
    files,             \* paths of the files in the temporary directory
    opened,            \* files the running run_cmd has opened
    invocations,       \* number of run_cmd calls so far
    executed,          \* <<subfolder, cmd>> of every command handed to subprocess.run by run_cmd
    listed,            \* <<namespace, pod, container>> of every container listed
    listing_failed,    \* some listing exhausted its retries
    archive,           \* None, or the paths added to the snapshot archive
    overwrites,        \* number of run_cmd calls that opened a file already there
    prev_call,         \* function, command and subfolder of the call before the last
    started,           \* the namespaces whose commands main has begun, in order
    runs,              \* runs of the program side by side: start, archive time and name
    now                \* the wall clock, in ticks

ctlVars == <<pc, frame, callee, exc, exit_code>>
listVars == <<namespaces_list, pods, containers>>
loopVars == <<namespace, pod, container, gi, ni, ci, pi, ki, li>>
callVars == <<cmd, subfolder>>
retryVars == <<backoff_timer, backoff_count, status, outcomes, sleeps>>
fsVars == <<tmp_exists, files, opened, archive>>
logVars == <<invocations, executed, listed, listing_failed>>
auxVars == <<overwrites, prev_call, started>>
vars == <<kubeconfig, ctlVars, listVars, loopVars, callVars, retryVars,
          ret, stdout, fsVars, logVars, auxVars, runs, now>>

\* no call yet
NoCall == [fn |-> "none", cmd |-> <<>>, sub |-> <<>>]
\* the last call main made: run_cmd(cmd, subfolder, ...) or get_kubectl_list
LastCall ==
    [fn |-> callee, cmd |-> cmd,
     sub |-> IF callee = "run_cmd" THEN subfolder ELSE <<>>]

\* standard outputs the listing queries may print during a traversal, names
\* separated by single spaces as jsonpath prints them: up to MaxNamespaces
\* namespaces, and no, one or two pods and containers
NamespaceOutputs == {Words(l) : l \in StringsUpTo(NameChars, MaxNamespaces)}
PodOutputs == {<<>>, <<"p">>, <<"p", SP, "q">>}
ContainerOutputs == {<<>>, <<"c">>, <<"c", SP, "d">>}
ListOutputs ==
    IF pc = "ns_listed" THEN NamespaceOutputs
    ELSE IF pc = "pods_listed" THEN PodOutputs
    ELSE ContainerOutputs

Init ==
    /\ kubeconfig \in KubeconfigArgs
    /\ pc = "start" /\ frame = "main" /\ callee = "none"
    /\ exc = "none" /\ exit_code = -1
    /\ namespaces_list = None /\ pods = <<>> /\ containers = None
    /\ namespace = <<>> /\ pod = <<>> /\ container = <<>>
    /\ gi = 1 /\ ni = 1 /\ ci = 1 /\ pi = 1 /\ ki = 1 /\ li = 1
    /\ cmd = <<>> /\ subfolder = <<>>
    /\ backoff_timer = 1 /\ backoff_count = 0 /\ status = "none"
    /\ outcomes = <<>> /\ sleeps = <<>>
    /\ ret = None /\ stdout = <<>>
    /\ tmp_exists = FALSE /\ files = {} /\ opened = 0 /\ archive = None
    /\ invocations = 0 /\ executed = {} /\ listed = {}
    /\ listing_failed = FALSE
    /\ overwrites = 0 /\ prev_call = NoCall /\ started = <<>>
    /\ runs = <<>> /\ now = 0

(* ---------------------- exceptions and calls --------------------------- *)

\* a plausible slip: the directory made with mkdtemp and removed only at the end
RaiseWithoutCleanup(e) ==
    /\ pc' = "aborted" /\ frame' = "main" /\ exc' = e /\ exit_code' = 1
    /\ UNCHANGED <<tmp_exists, files>>

\* an uncaught exception in main: the with-block removes the temporary
\* directory, the interpreter prints the traceback and exits with code 1
Raise(e) ==
    /\ pc' = "aborted" /\ frame' = "main" /\ exc' = e /\ exit_code' = 1
    /\ tmp_exists' = FALSE /\ files' = {}

\* a plausible slip: the directory is made but the output file is not opened
StartRunCmdWithoutFile(c, sub, next_pc) ==
    /\ cmd' = c /\ subfolder' = sub /\ callee' = "run_cmd"
    /\ invocations' = invocations + 1
    /\ prev_call' = LastCall
    /\ backoff_timer' = 1 /\ backoff_count' = 0 /\ status' = "none"
    /\ outcomes' = <<>> /\ sleeps' = <<>>
    /\ pc' = next_pc /\ frame' = "run_cmd"
    /\ UNCHANGED <<exc, exit_code, fsVars, executed, listed, listing_failed,
                   overwrites>>

\* run_cmd up to the loop: path, mkdir, open, backoff_timer = 1, backoff_count = 0
StartRunCmd(c, sub, next_pc) ==
    /\ cmd' = c /\ subfolder' = sub /\ callee' = "run_cmd"
    /\ invocations' = invocations + 1
    /\ overwrites' = overwrites + (IF OutputPath(sub, c) \in files THEN 1 ELSE 0)
    /\ prev_call' = LastCall
    /\ backoff_timer' = 1 /\ backoff_count' = 0 /\ status' = "none"
    /\ outcomes' = <<>> /\ sleeps' = <<>>
    /\ \/ /\ files' = files \cup {OutputPath(sub, c)}
          /\ opened' = 1
          /\ pc' = next_pc /\ frame' = "run_cmd"
          /\ UNCHANGED <<exc, exit_code, tmp_exists>>
       \/ /\ Raise("OSError")
          /\ opened' = 0
    /\ UNCHANGED <<archive, executed, listed, listing_failed>>

\* a plausible slip: the backoff state kept across calls (module-level variables)
StartListKeepsBackoff(c, next_pc) ==
    /\ cmd' = c /\ callee' = "get_kubectl_list"
    /\ status' = "none"
    /\ outcomes' = <<>> /\ sleeps' = <<>>
    /\ pc' = next_pc /\ frame' = "get_kubectl_list"
    /\ prev_call' = LastCall
    /\ UNCHANGED <<backoff_timer, backoff_count, exc, exit_code, subfolder,
                   fsVars, logVars, overwrites>>

\* get_kubectl_list up to the loop: the command, backoff_timer = 1, backoff_count = 0
StartList(c, next_pc) ==
    /\ cmd' = c /\ callee' = "get_kubectl_list"
    /\ backoff_timer' = 1 /\ backoff_count' = 0 /\ status' = "none"
    /\ outcomes' = <<>> /\ sleeps' = <<>>
    /\ pc' = next_pc /\ frame' = "get_kubectl_list"
    /\ prev_call' = LastCall
    /\ UNCHANGED <<exc, exit_code, subfolder, fsVars, logVars, overwrites>>

(* ------------------------------ run_cmd -------------------------------- *)

\* a plausible slip: the timer is doubled before the sleep
SleepAfterDoubling ==
    /\ sleeps' = Append(sleeps, backoff_timer * 2)
    /\ backoff_timer' = backoff_timer * 2
    /\ backoff_count' = backoff_count + 1

\* one pass of the loop: time.sleep(backoff_timer); backoff_timer *= 2; backoff_count += 1
SleepAndBackOff ==
    /\ sleeps' = Append(sleeps, backoff_timer)
    /\ backoff_timer' = backoff_timer * 2
    /\ backoff_count' = backoff_count + 1

\* a plausible slip: >= for >, one attempt fewer
MayAttemptOneFewer == ~(backoff_count >= BACKOFF_LIMIT)

\* the loop may run the command: not (backoff_count > BACKOFF_LIMIT)
MayAttempt == ~(backoff_count > BACKOFF_LIMIT)

\* a plausible slip: DONE is printed but the loop is not left
RunCmdExit0KeepsLooping ==
    /\ frame = "run_cmd" /\ ~(backoff_count > BACKOFF_LIMIT)
    /\ outcomes' = Append(outcomes, "exit0")
    /\ executed' = executed \cup {<<subfolder, cmd>>}
    /\ status' = "DONE"
    /\ UNCHANGED <<kubeconfig, runs, now, auxVars, ctlVars, listVars, loopVars, callVars,
                   backoff_timer, backoff_count, sleeps, ret, stdout, fsVars,
                   invocations, listed, listing_failed>>

\* subprocess.run returns with returncode 0: print DONE, return
RunCmdExit0 ==
    /\ frame = "run_cmd" /\ MayAttempt
    /\ outcomes' = Append(outcomes, "exit0")
    /\ executed' = executed \cup {<<subfolder, cmd>>}
    /\ status' = "DONE" /\ frame' = "main"
    /\ UNCHANGED <<kubeconfig, runs, now, auxVars, pc, callee, exc, exit_code, listVars, loopVars,
                   callVars, backoff_timer, backoff_count, sleeps, ret, stdout,
                   fsVars, invocations, listed, listing_failed>>

\* subprocess.run returns with a non-zero returncode: sleep, double, count
RunCmdNonzero ==
    /\ frame = "run_cmd" /\ MayAttempt
    /\ outcomes' = Append(outcomes, "nonzero")
    /\ executed' = executed \cup {<<subfolder, cmd>>}
    /\ SleepAndBackOff
    /\ UNCHANGED <<kubeconfig, runs, now, auxVars, ctlVars, listVars, loopVars, callVars, status,
                   ret, stdout, fsVars, invocations, listed, listing_failed>>

\* the command runs past timeout=60: subprocess.run raises TimeoutExpired,
\* which neither run_cmd nor main catches
RunCmdTimeout ==
    /\ frame = "run_cmd" /\ MayAttempt
    /\ outcomes' = Append(outcomes, "timeout")
    /\ executed' = executed \cup {<<subfolder, cmd>>}
    /\ Raise("TimeoutExpired")
    /\ UNCHANGED <<kubeconfig, runs, now, auxVars, callee, listVars, loopVars, callVars,
                   backoff_timer, backoff_count, status, sleeps, ret, stdout,
                   opened, archive, invocations, listed, listing_failed>>

\* backoff_count > BACKOFF_LIMIT: print FAIL, return
RunCmdFail ==
    /\ frame = "run_cmd" /\ ~MayAttempt
    /\ status' = "FAIL" /\ frame' = "main"
    /\ UNCHANGED <<kubeconfig, runs, now, auxVars, pc, callee, exc, exit_code, listVars, loopVars,
                   callVars, backoff_timer, backoff_count, outcomes, sleeps,
                   ret, stdout, fsVars, logVars>>

(* -------------------------- get_kubectl_list --------------------------- *)

\* what get_kubectl_list returns when its retries are exhausted: a bare return
ExhaustedResult == None

\* the query exits 0: print DONE, parse its standard output, return the list
ListExit0 ==
    /\ frame = "get_kubectl_list" /\ MayAttempt
    /\ \E out \in ListOutputs : ret' = Some(ParseList(out))
    /\ outcomes' = Append(outcomes, "exit0")
    /\ status' = "DONE" /\ frame' = "main"
    /\ UNCHANGED <<kubeconfig, runs, now, auxVars, pc, callee, exc, exit_code, listVars, loopVars,
                   callVars, backoff_timer, backoff_count, sleeps, stdout,
                   fsVars, logVars>>

\* the query exits non-zero: sleep, double, count
ListNonzero ==
    /\ frame = "get_kubectl_list" /\ MayAttempt
    /\ outcomes' = Append(outcomes, "nonzero")
    /\ SleepAndBackOff
    /\ UNCHANGED <<kubeconfig, runs, now, auxVars, ctlVars, listVars, loopVars, callVars, status,
                   ret, stdout, fsVars, logVars>>

\* the query never exits: subprocess.run has no timeout here and blocks
ListHang ==
    /\ frame = "get_kubectl_list" /\ MayAttempt
    /\ outcomes' = Append(outcomes, "hang")
    /\ frame' = "blocked"
    /\ UNCHANGED <<kubeconfig, runs, now, auxVars, pc, callee, exc, exit_code, listVars, loopVars,
                   callVars, backoff_timer, backoff_count, status, sleeps, ret,
                   stdout, fsVars, logVars>>

\* backoff_count > BACKOFF_LIMIT: print FAIL, return (None)
ListFail ==
    /\ frame = "get_kubectl_list" /\ ~MayAttempt
    /\ status' = "FAIL" /\ frame' = "main"
    /\ ret' = ExhaustedResult
    /\ listing_failed' = TRUE
    /\ UNCHANGED <<kubeconfig, runs, now, auxVars, pc, callee, exc, exit_code, listVars, loopVars,
                   callVars, backoff_timer, backoff_count, outcomes, sleeps,
                   stdout, fsVars, invocations, executed, listed>>

(* -------------------------------- main --------------------------------- *)

\* namespaces_list = get_kubectl_list('namespaces', kubeconfig, timeout): the call
MainListNamespaces ==
    /\ pc = "start" /\ frame = "main"
    /\ StartList(ListCmd("namespaces", kubeconfig, <<>>, <<>>, JsonpathItems),
                 "ns_listed")
    /\ UNCHANGED <<kubeconfig, runs, now, started, listVars, loopVars, ret, stdout>>

\* the assignment of namespaces_list, then: with tempfile.TemporaryDirectory()
MainEnterTmp ==
    /\ pc = "ns_listed" /\ frame = "main"
    /\ namespaces_list' = ret
    /\ tmp_exists' = TRUE
    /\ gi' = 1 /\ pc' = "global"
    /\ UNCHANGED <<kubeconfig, runs, now, auxVars, frame, callee, exc, exit_code, pods, containers,
                   namespace, pod, container, ni, ci, pi, ki, li, callVars,
                   retryVars, ret, stdout, files, opened, archive, logVars>>

\* for cmd in KUBECTL_GLOBAL_CMDS: run_cmd(cmd.format(...), 'global', output_dir)
MainGlobalCmd ==
    /\ pc = "global" /\ frame = "main" /\ gi <= Len(KUBECTL_GLOBAL_CMDS)
    /\ StartRunCmd(FormatCmd(KUBECTL_GLOBAL_CMDS[gi], kubeconfig, <<>>, <<>>, <<>>),
                   GlobalFolder, "global")
    /\ gi' = gi + 1
    /\ UNCHANGED <<kubeconfig, runs, now, started, listVars, namespace, pod, container, ni, ci, pi,
                   ki, li, ret, stdout>>

\* the global loop is exhausted: on to for namespace in namespaces_list
MainGlobalDone ==
    /\ pc = "global" /\ frame = "main" /\ gi > Len(KUBECTL_GLOBAL_CMDS)
    /\ pc' = "ns_loop" /\ ni' = 1
    /\ UNCHANGED <<kubeconfig, runs, now, auxVars, frame, callee, exc, exit_code, listVars,
                   namespace, pod, container, gi, ci, pi, ki, li, callVars,
                   retryVars, ret, stdout, fsVars, logVars>>

\* for namespace in namespaces_list, with namespaces_list None: TypeError
MainNamespacesNone ==
    /\ pc = "ns_loop" /\ frame = "main" /\ namespaces_list.isNone
    /\ Raise("TypeError")
    /\ UNCHANGED <<kubeconfig, runs, now, auxVars, callee, listVars, loopVars, callVars, retryVars,
                   ret, stdout, opened, archive, logVars>>

\* for namespace in namespaces_list: the next namespace
MainNextNamespace ==
    /\ pc = "ns_loop" /\ frame = "main" /\ ~namespaces_list.isNone
    /\ ni <= Len(namespaces_list.items)
    /\ namespace' = namespaces_list.items[ni]
    /\ ni' = ni + 1 /\ ci' = 1 /\ pc' = "ns_cmds"
    /\ UNCHANGED <<kubeconfig, runs, now, auxVars, frame, callee, exc, exit_code, listVars, pod,
                   container, gi, pi, ki, li, callVars, retryVars, ret, stdout,
                   fsVars, logVars>>

\* the namespace loop is exhausted: "Commands done"
MainNamespacesDone ==
    /\ pc = "ns_loop" /\ frame = "main" /\ ~namespaces_list.isNone
    /\ ni > Len(namespaces_list.items)
    /\ pc' = "archive"
    /\ UNCHANGED <<kubeconfig, runs, now, auxVars, frame, callee, exc, exit_code, listVars,
                   loopVars, callVars, retryVars, ret, stdout, fsVars, logVars>>

\* for cmd in KUBECTL_PER_NS_CMDS: run_cmd(..., 'namespaces/{}'.format(namespace), ...)
MainNsCmd ==
    /\ pc = "ns_cmds" /\ frame = "main" /\ ci <= Len(KUBECTL_PER_NS_CMDS)
    /\ StartRunCmd(FormatCmd(KUBECTL_PER_NS_CMDS[ci], kubeconfig, namespace,
                             <<>>, <<>>),
                   NamespaceFolder(namespace), "ns_cmds")
    /\ ci' = ci + 1
    /\ started' = IF ci = 1 THEN Append(started, namespace) ELSE started
    /\ UNCHANGED <<kubeconfig, runs, now, listVars, namespace, pod, container, gi, ni, pi,
                   ki, li, ret, stdout>>

\* a plausible slip: the pods listed when the last namespace command is still due
MainListPodsEarly ==
    /\ pc = "ns_cmds" /\ frame = "main" /\ ci >= Len(KUBECTL_PER_NS_CMDS)
    /\ StartList(ListCmd("pods", kubeconfig, namespace, <<>>, JsonpathItems),
                 "pods_listed")
    /\ UNCHANGED <<kubeconfig, runs, now, started, listVars, loopVars, ret, stdout>>

\* for pod in get_kubectl_list('pods', kubeconfig, timeout, namespace): the call
MainListPods ==
    /\ pc = "ns_cmds" /\ frame = "main" /\ ci > Len(KUBECTL_PER_NS_CMDS)
    /\ StartList(ListCmd("pods", kubeconfig, namespace, <<>>, JsonpathItems),
                 "pods_listed")
    /\ UNCHANGED <<kubeconfig, runs, now, started, listVars, loopVars, ret, stdout>>

\* for pod in None: TypeError
MainPodsNone ==
    /\ pc = "pods_listed" /\ frame = "main" /\ ret.isNone
    /\ Raise("TypeError")
    /\ UNCHANGED <<kubeconfig, runs, now, auxVars, callee, listVars, loopVars, callVars, retryVars,
                   ret, stdout, opened, archive, logVars>>

\* for pod in <the list returned>: the iteration starts
MainPodsListed ==
    /\ pc = "pods_listed" /\ frame = "main" /\ ~ret.isNone
    /\ pods' = ret.items
    /\ pi' = 1 /\ pc' = "pod_loop"
    /\ UNCHANGED <<kubeconfig, runs, now, auxVars, frame, callee, exc, exit_code, namespaces_list,
                   containers, namespace, pod, container, gi, ni, ci, ki, li,
                   callVars, retryVars, ret, stdout, fsVars, logVars>>

\* the next pod: containers = get_kubectl_list('pod', ..., object_name=pod): the call
MainNextPod ==
    /\ pc = "pod_loop" /\ frame = "main" /\ pi <= Len(pods)
    /\ pod' = pods[pi]
    /\ pi' = pi + 1
    /\ StartList(ListCmd("pod", kubeconfig, namespace, pods[pi],
                         JsonpathContainers),
                 "containers_listed")
    /\ UNCHANGED <<kubeconfig, runs, now, started, listVars, namespace, container, gi, ni, ci, ki,
                   li, ret, stdout>>

\* the pod loop is exhausted: back to the namespace loop
MainPodsDone ==
    /\ pc = "pod_loop" /\ frame = "main" /\ pi > Len(pods)
    /\ pc' = "ns_loop"
    /\ UNCHANGED <<kubeconfig, runs, now, auxVars, frame, callee, exc, exit_code, listVars,
                   loopVars, callVars, retryVars, ret, stdout, fsVars, logVars>>

\* the assignment of containers
MainContainersListed ==
    /\ pc = "containers_listed" /\ frame = "main"
    /\ containers' = ret
    /\ listed' = listed \cup
                   {<<namespace, pod, ret.items[i]>> : i \in 1..Len(ret.items)}
    /\ ki' = 1 /\ pc' = "container_loop"
    /\ UNCHANGED <<kubeconfig, runs, now, auxVars, frame, callee, exc, exit_code, namespaces_list,
                   pods, namespace, pod, container, gi, ni, ci, pi, li,
                   callVars, retryVars, ret, stdout, fsVars, invocations,
                   executed, listing_failed>>

\* for container in containers, with containers None: TypeError
MainContainersNone ==
    /\ pc = "container_loop" /\ frame = "main" /\ containers.isNone
    /\ Raise("TypeError")
    /\ UNCHANGED <<kubeconfig, runs, now, auxVars, callee, listVars, loopVars, callVars, retryVars,
                   ret, stdout, opened, archive, logVars>>

\* for container in containers: the next container
MainNextContainer ==
    /\ pc = "container_loop" /\ frame = "main" /\ ~containers.isNone
    /\ ki <= Len(containers.items)
    /\ container' = containers.items[ki]
    /\ ki' = ki + 1 /\ li' = 1 /\ pc' = "pod_cmds"
    /\ UNCHANGED <<kubeconfig, runs, now, auxVars, frame, callee, exc, exit_code, listVars,
                   namespace, pod, gi, ni, ci, pi, callVars, retryVars, ret,
                   stdout, fsVars, logVars>>

\* the container loop is exhausted: back to the pod loop
MainContainersDone ==
    /\ pc = "container_loop" /\ frame = "main" /\ ~containers.isNone
    /\ ki > Len(containers.items)
    /\ pc' = "pod_loop"
    /\ UNCHANGED <<kubeconfig, runs, now, auxVars, frame, callee, exc, exit_code, listVars,
                   loopVars, callVars, retryVars, ret, stdout, fsVars, logVars>>

\* for cmd in KUBECTL_PER_POD_CMDS: run_cmd(..., 'namespaces/{}/{}'.format(namespace, pod), ...)
MainPodCmd ==
    /\ pc = "pod_cmds" /\ frame = "main" /\ li <= Len(KUBECTL_PER_POD_CMDS)
    /\ StartRunCmd(FormatCmd(KUBECTL_PER_POD_CMDS[li], kubeconfig, namespace,
                             pod, container),
                   PodFolder(namespace, pod), "pod_cmds")
    /\ li' = li + 1
    /\ UNCHANGED <<kubeconfig, runs, now, started, listVars, namespace, pod, container, gi, ni, ci,
                   pi, ki, ret, stdout>>

\* the per-pod command loop is exhausted: back to the container loop
MainPodCmdsDone ==
    /\ pc = "pod_cmds" /\ frame = "main" /\ li > Len(KUBECTL_PER_POD_CMDS)
    /\ pc' = "container_loop"
    /\ UNCHANGED <<kubeconfig, runs, now, auxVars, frame, callee, exc, exit_code, listVars,
                   loopVars, callVars, retryVars, ret, stdout, fsVars, logVars>>

\* tarfile.open, add(output_dir), close, print; the with-block then removes
\* the temporary directory and main returns: exit code 0
MainArchive ==
    /\ pc = "archive" /\ frame = "main"
    /\ archive' = Some(files)
    /\ tmp_exists' = FALSE /\ files' = {}
    /\ pc' = "done" /\ exit_code' = 0
    /\ UNCHANGED <<kubeconfig, runs, now, auxVars, frame, callee, exc, listVars, loopVars,
                   callVars, retryVars, ret, stdout, opened, logVars>>

\* tarfile.open or add raises (archive library or disk failure)
MainArchiveFails ==
    /\ pc = "archive" /\ frame = "main"
    /\ Raise("TarError")
    /\ UNCHANGED <<kubeconfig, runs, now, auxVars, callee, listVars, loopVars, callVars, retryVars,
                   ret, stdout, opened, archive, logVars>>

Next ==
    \/ MainListNamespaces \/ MainEnterTmp \/ MainGlobalCmd \/ MainGlobalDone
    \/ MainNamespacesNone \/ MainNextNamespace \/ MainNamespacesDone
    \/ MainNsCmd \/ MainListPods \/ MainPodsNone \/ MainPodsListed
    \/ MainNextPod \/ MainPodsDone \/ MainContainersListed
    \/ MainContainersNone \/ MainNextContainer \/ MainContainersDone
    \/ MainPodCmd \/ MainPodCmdsDone \/ MainArchive \/ MainArchiveFails
    \/ RunCmdExit0 \/ RunCmdNonzero \/ RunCmdTimeout \/ RunCmdFail
    \/ ListExit0 \/ ListNonzero \/ ListHang \/ ListFail

Spec == Init /\ [][Next]_vars

(* ------------------ the list parser on its own ------------------------- *)

InitParse ==
    /\ kubeconfig = <<>>
    /\ pc = "parse" /\ frame = "get_kubectl_list" /\ callee = "get_kubectl_list"
    /\ exc = "none" /\ exit_code = -1
    /\ namespaces_list = None /\ pods = <<>> /\ containers = None
    /\ namespace = <<>> /\ pod = <<>> /\ container = <<>>
    /\ gi = 1 /\ ni = 1 /\ ci = 1 /\ pi = 1 /\ ki = 1 /\ li = 1
    /\ cmd = <<>> /\ subfolder = <<>>
    /\ backoff_timer = 1 /\ backoff_count = 0 /\ status = "none"
    /\ outcomes = <<>> /\ sleeps = <<>>
    /\ ret = None
    /\ stdout \in StringsUpTo(ParseChars, MaxLen)
    /\ tmp_exists = FALSE /\ files = {} /\ opened = 0 /\ archive = None
    /\ invocations = 0 /\ executed = {} /\ listed = {}
    /\ listing_failed = FALSE
    /\ overwrites = 0 /\ prev_call = NoCall /\ started = <<>>
    /\ runs = <<>> /\ now = 0

\* the success branch of get_kubectl_list applied to one standard output
ParseApply ==
    /\ pc = "parse"
    /\ ret' = Some(ParseList(stdout))
    /\ status' = "DONE" /\ pc' = "parsed"
    /\ UNCHANGED <<kubeconfig, runs, now, auxVars, frame, callee, exc, exit_code, listVars,
                   loopVars, callVars, backoff_timer, backoff_count, outcomes,
                   sleeps, stdout, fsVars, logVars>>

SpecParse == InitParse /\ [][ParseApply]_vars

(* ---------------- archive names of runs side by side ------------------- *)

MaxRuns == 2
MaxClock == 7
\* clock ticks in one second: time.time() has sub-second resolution
TicksPerSecond == 2

\* int(time.time()) at clock value t: the whole seconds
Seconds(t) == t \div TicksPerSecond

\* the number in 'snapshot-{int(time.time())}' when evaluated at clock value t
SnapshotName(t) == Seconds(t)

InitNaming ==
    /\ kubeconfig = <<>>
    /\ pc = "naming" /\ frame = "main" /\ callee = "none"
    /\ exc = "none" /\ exit_code = -1
    /\ namespaces_list = None /\ pods = <<>> /\ containers = None
    /\ namespace = <<>> /\ pod = <<>> /\ container = <<>>
    /\ gi = 1 /\ ni = 1 /\ ci = 1 /\ pi = 1 /\ ki = 1 /\ li = 1
    /\ cmd = <<>> /\ subfolder = <<>>
    /\ backoff_timer = 1 /\ backoff_count = 0 /\ status = "none"
    /\ outcomes = <<>> /\ sleeps = <<>>
    /\ ret = None /\ stdout = <<>>
    /\ tmp_exists = FALSE /\ files = {} /\ opened = 0 /\ archive = None
    /\ invocations = 0 /\ executed = {} /\ listed = {}
    /\ listing_failed = FALSE
    /\ overwrites = 0 /\ prev_call = NoCall /\ started = <<>>
    /\ runs = <<>> /\ now = 0

namingRest == <<kubeconfig, ctlVars, listVars, loopVars, callVars, retryVars,
                ret, stdout, fsVars, logVars, auxVars>>

\* time passes
Tick ==
    /\ pc = "naming" /\ now < MaxClock
    /\ now' = now + 1
    /\ UNCHANGED <<runs, namingRest>>

\* one more run of the program enters main
RunStart ==
    /\ pc = "naming" /\ Len(runs) < MaxRuns
    /\ runs' = Append(runs, [start |-> now, end |-> -1, name |-> -1])
    /\ UNCHANGED <<now, namingRest>>

\* a slip: the name taken from the time the run began
RunArchiveNamedAtStart ==
    /\ pc = "naming"
    /\ \E r \in 1..Len(runs) :
         /\ runs[r].end = -1
         /\ runs' = [runs EXCEPT ![r] = [start |-> @.start, end |-> now,
                                         name |-> SnapshotName(@.start)]]
    /\ UNCHANGED <<now, namingRest>>

\* a run reaches line 198 after its traversal: the name is computed from the
\* clock at that moment and the archive of that name is opened for writing
RunArchive ==
    /\ pc = "naming"
    /\ \E r \in 1..Len(runs) :
         /\ runs[r].end = -1
         /\ runs' = [runs EXCEPT ![r] = [start |-> @.start, end |-> now,
                                         name |-> SnapshotName(now)]]
    /\ UNCHANGED <<now, namingRest>>

NextNaming == Tick \/ RunStart \/ RunArchive

SpecNaming == InitNaming /\ [][NextNaming]_vars

(* ------------------- run_cmd on arbitrary commands --------------------- *)

MaxCmdLen == 1
MaxPathCalls == 2

PathChars == {"a", SP, US}
ExampleCmd ==
    Words(<<"kubectl", "get", "all", "-o", "wide", "--namespace", "foo">>)
\* command strings handed to run_cmd: a letter, the space, the underscore and
\* their short combinations, and the example of the path rule
PathCmds == (StringsUpTo(PathChars, MaxCmdLen) \ {<<>>}) \cup {ExampleCmd}
PathSubfolders == {GlobalFolder, NamespaceFolder(<<"a">>)}

\* inside the with-block, before any command
InitPath ==
    /\ kubeconfig = <<>>
    /\ pc = "path" /\ frame = "main" /\ callee = "none"
    /\ exc = "none" /\ exit_code = -1
    /\ namespaces_list = None /\ pods = <<>> /\ containers = None
    /\ namespace = <<>> /\ pod = <<>> /\ container = <<>>
    /\ gi = 1 /\ ni = 1 /\ ci = 1 /\ pi = 1 /\ ki = 1 /\ li = 1
    /\ cmd = <<>> /\ subfolder = <<>>
    /\ backoff_timer = 1 /\ backoff_count = 0 /\ status = "none"
    /\ outcomes = <<>> /\ sleeps = <<>>
    /\ ret = None /\ stdout = <<>>
    /\ tmp_exists = TRUE /\ files = {} /\ opened = 0 /\ archive = None
    /\ invocations = 0 /\ executed = {} /\ listed = {}
    /\ listing_failed = FALSE
    /\ overwrites = 0 /\ prev_call = NoCall /\ started = <<>>
    /\ runs = <<>> /\ now = 0

\* run_cmd(cmd, subfolder, output_dir) called with some command and subfolder
PathRun ==
    /\ pc = "path" /\ frame = "main" /\ invocations < MaxPathCalls
    /\ \E c \in PathCmds, sub \in PathSubfolders : StartRunCmd(c, sub, "path")
    /\ UNCHANGED <<kubeconfig, runs, now, started, listVars, loopVars, ret, stdout>>

NextPath ==
    PathRun \/ RunCmdExit0 \/ RunCmdNonzero \/ RunCmdTimeout \/ RunCmdFail

SpecPath == InitPath /\ [][NextPath]_vars

(* ------------------------------ claims --------------------------------- *)

RECURSIVE Sum(_)
Sum(s) == IF s = <<>> THEN 0 ELSE Head(s) + Sum(Tail(s))

Last(s) == s[Len(s)]
AllNonzero(s) == \A i \in 1..Len(s) : s[i] = "nonzero"
NonEmptyTokens(l) == SelectSeq(l, LAMBDA t : t # <<>>)
InfrastructureErrors == {"OSError", "TarError"}
ListerReturned == callee = "get_kubectl_list" /\ frame = "main"
RunCmdReturned == callee = "run_cmd" /\ frame = "main" /\ status # "none"

\* C1: a listing whose query exits non-zero on every attempt returns an empty
\* sequence, which the caller iterates like a listing that found nothing (no
\* TypeError from iterating the result).
C1_ExhaustedListingIsEmptySequence ==
    (ListerReturned /\ status = "FAIL")
        => (ret = Some(<<>>) /\ exc # "TypeError")

\* C2: a namespace whose pod listing fails on all attempts does not abort the
\* traversal: main goes on from the failed pod listing to the next namespace
\* (and on to the archive), it is never ended there by an exception.
C2_FailedPodListingDoesNotAbort ==
    (ListerReturned /\ status = "FAIL"
       /\ cmd = ListCmd("pods", kubeconfig, namespace, <<>>, JsonpathItems))
        => pc # "aborted"

\* C3: run_cmd never raises because of the command: an attempt that exceeds
\* the 60-unit timeout is one failed attempt, followed by the sleep and the
\* retry, so the run is never ended by TimeoutExpired and every timed-out
\* attempt has its sleep.
C3_TimeoutIsARetriedFailure ==
    (callee = "run_cmd" /\ outcomes # <<>> /\ Last(outcomes) = "timeout")
        => (exc # "TimeoutExpired" /\ Len(sleeps) = Len(outcomes))

\* C4: every run that ends without a filesystem or archive failure has
\* created the snapshot archive, whatever commands and listings failed or
\* timed out.
C4_ArchiveCreatedUnlessInfrastructureFails ==
    (pc \in {"done", "aborted"} /\ exc \notin InfrastructureErrors)
        => ~archive.isNone

\* C5: the process exits abnormally only on an infrastructure failure; command
\* and listing failures leave the exit code 0.
C5_AbnormalExitOnlyOnInfrastructureFailure ==
    (exit_code # -1 /\ exc \notin InfrastructureErrors) => exit_code = 0

\* C6: a command that exits non-zero on every attempt is attempted exactly 5
\* times, never more and never fewer, then FAIL is reported and run_cmd returns.
C6_AllFailingCommandGetsFiveAttempts ==
    (callee = "run_cmd" /\ outcomes # <<>> /\ AllNonzero(outcomes))
        => /\ Len(outcomes) <= 5
           /\ status # "DONE"
           /\ (status = "FAIL" => Len(outcomes) = 5 /\ frame = "main")
           /\ (frame = "run_cmd" /\ Len(outcomes) = 5 => ENABLED RunCmdFail)
           /\ (frame = "run_cmd" /\ Len(outcomes) < 5 => ~ENABLED RunCmdFail)

C6_Witness ==
    /\ RunCmdReturned /\ status = "FAIL"
    /\ outcomes = <<"nonzero", "nonzero", "nonzero", "nonzero", "nonzero">>

\* C7: a command that exits non-zero exactly k times (1 <= k <= 4) and then
\* exits 0 is reported DONE after k+1 attempts, having slept 2^k - 1 units in
\* all; and after k <= 4 failures the next attempt is always made.
C7_SuccessAfterKFailures ==
    /\ (callee = "run_cmd" /\ Len(outcomes) >= 2 /\ Last(outcomes) = "exit0"
          /\ AllNonzero(SubSeq(outcomes, 1, Len(outcomes) - 1)))
         => LET k == Len(outcomes) - 1
            IN /\ k \in 1..4
               /\ status = "DONE" /\ frame = "main"
               /\ Len(sleeps) = k
               /\ Sum(sleeps) = 2^k - 1
    /\ (frame = "run_cmd" /\ AllNonzero(outcomes) /\ Len(outcomes) \in 1..4)
         => ENABLED RunCmdExit0

C7_Witness ==
    /\ RunCmdReturned /\ status = "DONE"
    /\ outcomes = <<"nonzero", "nonzero", "nonzero", "nonzero", "exit0">>
    /\ Sum(sleeps) = 15

\* C8: a command that exits 0 on its first attempt is run exactly once, with
\* no sleep, and run_cmd leaves exactly one output file for it.
C8_FirstAttemptSuccess ==
    (callee = "run_cmd" /\ outcomes # <<>> /\ outcomes[1] = "exit0")
        => /\ Len(outcomes) = 1
           /\ sleeps = <<>>
           /\ status = "DONE" /\ frame = "main"
           /\ opened = 1
           /\ (tmp_exists => OutputPath(subfolder, cmd) \in files)

C8_Witness ==
    /\ RunCmdReturned /\ status = "DONE" /\ outcomes = <<"exit0">>
    /\ sleeps = <<>> /\ opened = 1 /\ OutputPath(subfolder, cmd) \in files

\* C9: on success the list returned is the standard output split on single
\* spaces with every empty token removed, in order; it never holds an empty
\* string.
C9_ParsedListHasNoEmptyToken ==
    pc = "parsed"
        => /\ ret = Some(NonEmptyTokens(Split(stdout)))
           /\ ~Contains(ret.items, <<>>)

\* the commands the listings of this run call for, each with its subfolder
ExpectedCommands ==
    {<<<<"global">>, FormatCmd(KUBECTL_GLOBAL_CMDS[i], kubeconfig, <<>>, <<>>, <<>>)>> :
        i \in 1..Len(KUBECTL_GLOBAL_CMDS)}
    \cup
    {<<<<"namespaces", "/">> \o namespaces_list.items[n],
       FormatCmd(KUBECTL_PER_NS_CMDS[i], kubeconfig, namespaces_list.items[n],
                 <<>>, <<>>)>> :
        n \in 1..Len(namespaces_list.items), i \in 1..Len(KUBECTL_PER_NS_CMDS)}
    \cup
    {<<<<"namespaces", "/">> \o t[1] \o <<"/">> \o t[2],
       FormatCmd(KUBECTL_PER_POD_CMDS[1], kubeconfig, t[1], t[2], t[3])>> :
        t \in listed}

\* the files of the snapshot: the temporary directory when the archive is
\* about to be made, the archive's members afterwards
SnapshotFiles == IF pc = "done" THEN archive.items ELSE files

\* C10: when all listings succeed and the traversal has run to its end, the
\* executed commands are exactly the 14 global commands under 'global', 3
\* commands per listed namespace under 'namespaces/<ns>' and one log command
\* per listed (namespace, pod, container) under 'namespaces/<ns>/<pod>'; with
\* zero namespaces only the 14 global commands ran and no file lies under
\* 'namespaces/'.
C10_ExecutedCommandsAreThePlan ==
    (pc \in {"archive", "done"} /\ ~listing_failed)
        => LET nss == {namespaces_list.items[n] : n \in 1..Len(namespaces_list.items)}
               inFolder(f) == {e \in executed : e[1] = f}
               global == inFolder(<<"global">>)
               perNs == UNION {inFolder(<<"namespaces", "/">> \o ns) : ns \in nss}
           IN /\ executed = ExpectedCommands
              /\ Cardinality(global) = 14
              /\ \A ns \in nss :
                    Cardinality(inFolder(<<"namespaces", "/">> \o ns)) = 3
              /\ Cardinality(executed \ (global \cup perNs)) = Cardinality(listed)
              /\ SnapshotFiles = {OutputPath(e[1], e[2]) : e \in executed}
              /\ (nss = {} => /\ Cardinality(executed) = 14
                              /\ \A f \in SnapshotFiles : f[1] = "global")

C10_Witness ==
    /\ pc = "done" /\ ~listing_failed
    /\ namespaces_list = Some(<<<<"a">>, <<"b">>>>)
    /\ Cardinality(listed) = 8
    /\ Cardinality(executed) = 28
    /\ Cardinality(archive.items) = 28

NoDuplicates(l) == \A i, j \in 1..Len(l) : l[i] = l[j] => i = j

\* C11 as stated: every executed command leaves one output file of its own,
\* so that at the end of the traversal there are as many output files as
\* run_cmd invocations, duplicate names in the listings included.
C11_FilesEqualInvocations ==
    pc = "archive" => Cardinality(files) = invocations

\* C11 as amended: every run_cmd invocation opens exactly one output file,
\* also when all its attempts fail; the output files are as many as the
\* distinct output paths, i.e. the invocations less those that opened a path
\* already there, and as many as the invocations when no namespace is listed
\* twice.
C11_FilesEqualDistinctInvocations ==
    /\ (RunCmdReturned /\ tmp_exists)
         => (opened = 1 /\ OutputPath(subfolder, cmd) \in files)
    /\ tmp_exists => Cardinality(files) = invocations - overwrites
    /\ pc = "archive"
         => /\ Cardinality(files) = Cardinality(executed)
            /\ (NoDuplicates(namespaces_list.items)
                  => Cardinality(files) = invocations)

C11_Witness ==
    /\ pc = "archive"
    /\ namespaces_list = Some(<<<<"a">>, <<"a">>>>)
    /\ overwrites >= 3
    /\ Cardinality(files) < invocations

\* C12: the temporary directory exists throughout the traversal and, on every
\* way out of the run after it was created (normal end, an exception raised
\* during the traversal, an archive failure), it is gone, with its files, when
\* the process ends.
C12_TemporaryDirectoryRemovedOnExit ==
    /\ pc \in {"global", "ns_loop", "ns_cmds", "pods_listed", "pod_loop",
               "containers_listed", "container_loop", "pod_cmds", "archive"}
         => tmp_exists
    /\ pc \in {"done", "aborted"} => (~tmp_exists /\ files = {})

C12_Witness ==
    /\ pc = "aborted" /\ exc = "TimeoutExpired"
    /\ invocations = 20 /\ ~tmp_exists /\ files = {}

\* C13: every attempt of an external command, of run_cmd and of
\* get_kubectl_list alike, ends within the hard timeout: no attempt blocks
\* forever.
C13_NoAttemptBlocksForever ==
    frame # "blocked"

\* run_cmd's loop (lines 98-116) as a function of the outcomes of its attempts:
\* the attempts made, the delays slept and how the call ends
RECURSIVE RunCmdPolicy(_, _, _, _)
RunCmdPolicy(feed, timer, count, acc) ==
    IF count > BACKOFF_LIMIT THEN [acc EXCEPT !.end = "FAIL"]
    ELSE IF feed = <<>> THEN acc
    ELSE LET made == [acc EXCEPT !.attempts = @ + 1] IN
         CASE Head(feed) = "exit0"   -> [made EXCEPT !.end = "DONE"]
           [] Head(feed) = "timeout" -> [made EXCEPT !.end = "raised"]
           [] OTHER -> RunCmdPolicy(Tail(feed), timer * 2, count + 1,
                                    [made EXCEPT !.sleeps = Append(@, timer)])

ExecutorOn(feed) ==
    RunCmdPolicy(feed, 1, 0, [attempts |-> 0, sleeps |-> <<>>, end |-> "running"])

\* an attempt of the lister that outlives the hard timeout is the outcome the
\* executor sees as a timeout
AsExecutorFeed(os) ==
    [i \in 1..Len(os) |-> IF os[i] = "hang" THEN "timeout" ELSE os[i]]

\* how the current call has ended, seen from its caller
CallEnd ==
    IF frame = "blocked" THEN "blocked"
    ELSE IF exc = "TimeoutExpired" THEN "raised"
    ELSE status

\* C14: on the same sequence of attempt outcomes the lister makes the attempts,
\* sleeps the delays and ends the way the executor does.
C14_ListerFollowsExecutorPolicy ==
    (callee = "get_kubectl_list" /\ frame \in {"main", "blocked"})
        => LET r == ExecutorOn(AsExecutorFeed(outcomes)) IN
           /\ Len(outcomes) = r.attempts
           /\ sleeps = r.sleeps
           /\ CallEnd = r.end

\* the executor itself follows ExecutorOn
ExecutorFollowsPolicy ==
    (callee = "run_cmd" /\ frame = "main" /\ exc \in {"none", "TimeoutExpired"})
        => LET r == ExecutorOn(outcomes) IN
           /\ Len(outcomes) = r.attempts
           /\ sleeps = r.sleeps
           /\ CallEnd = r.end

Archived == {r \in 1..Len(runs) : runs[r].end # -1}

\* C15 (as stated): two runs write the same archive name only if they started
\* within the same second.
C15_SameNameOnlyIfSameStartSecond ==
    \A r1, r2 \in Archived :
        (r1 # r2 /\ runs[r1].name = runs[r2].name)
            => Seconds(runs[r1].start) = Seconds(runs[r2].start)

\* C15 (amended): the name carries the second in which the run reached its
\* archive step; two runs write the same name exactly when their archive steps
\* fall in the same second, whenever they started.
C15_SameNameIffSameArchiveSecond ==
    \A r1, r2 \in Archived :
        /\ runs[r1].name = Seconds(runs[r1].end)
        /\ runs[r1].name >= Seconds(runs[r1].start)
        /\ (runs[r1].name = runs[r2].name)
              <=> (Seconds(runs[r1].end) = Seconds(runs[r2].end))

C15_Witness ==
    /\ Len(runs) = 2 /\ Archived = {1, 2}
    /\ Seconds(runs[1].start) # Seconds(runs[2].start)
    /\ runs[1].name = runs[2].name

\* the calls main can make, by what they are about
CallListNamespaces ==
    [fn |-> "get_kubectl_list", sub |-> <<>>,
     cmd |-> ListCmd("namespaces", kubeconfig, <<>>, <<>>, JsonpathItems)]
CallGlobal(i) ==
    [fn |-> "run_cmd", sub |-> GlobalFolder,
     cmd |-> FormatCmd(KUBECTL_GLOBAL_CMDS[i], kubeconfig, <<>>, <<>>, <<>>)]
CallNs(ns, i) ==
    [fn |-> "run_cmd", sub |-> NamespaceFolder(ns),
     cmd |-> FormatCmd(KUBECTL_PER_NS_CMDS[i], kubeconfig, ns, <<>>, <<>>)]
CallListPods(ns) ==
    [fn |-> "get_kubectl_list", sub |-> <<>>,
     cmd |-> ListCmd("pods", kubeconfig, ns, <<>>, JsonpathItems)]
CallListContainers(ns, p) ==
    [fn |-> "get_kubectl_list", sub |-> <<>>,
     cmd |-> ListCmd("pod", kubeconfig, ns, p, JsonpathContainers)]
CallPod(ns, p, c, i) ==
    [fn |-> "run_cmd", sub |-> PodFolder(ns, p),
     cmd |-> FormatCmd(KUBECTL_PER_POD_CMDS[i], kubeconfig, ns, p, c)]

Elements(l) == {l[i] : i \in 1..Len(l)}
NamespaceNames == UNION {Elements(ParseList(o)) : o \in NamespaceOutputs}
PodNames == UNION {Elements(ParseList(o)) : o \in PodOutputs}
ContainerNames == UNION {Elements(ParseList(o)) : o \in ContainerOutputs}

NGlobal == Len(KUBECTL_GLOBAL_CMDS)
NPerNs == Len(KUBECTL_PER_NS_CMDS)
NPerPod == Len(KUBECTL_PER_POD_CMDS)

\* call b may come directly after call a in the order of section "Sequence"
Follows(a, b) ==
    \/ a = NoCall /\ b \in {NoCall, CallListNamespaces}
    \/ /\ b.sub = GlobalFolder
       /\ \/ a = CallListNamespaces /\ b = CallGlobal(1)
          \/ \E i \in 1..(NGlobal - 1) : b = CallGlobal(i + 1) /\ a = CallGlobal(i)
    \/ \E ns \in NamespaceNames :
         \/ /\ b.sub = NamespaceFolder(ns)
            /\ \/ /\ b = CallNs(ns, 1)
                  /\ \/ a = CallGlobal(NGlobal)
                     \/ \E ns0 \in NamespaceNames :
                          \/ a = CallListPods(ns0)
                          \/ \E p \in PodNames :
                               \/ a = CallListContainers(ns0, p)
                               \/ \E c \in ContainerNames :
                                    a = CallPod(ns0, p, c, NPerPod)
               \/ \E i \in 1..(NPerNs - 1) :
                    b = CallNs(ns, i + 1) /\ a = CallNs(ns, i)
         \/ /\ b.fn = "get_kubectl_list"
            /\ \/ b = CallListPods(ns) /\ a = CallNs(ns, NPerNs)
               \/ \E p \in PodNames :
                    /\ b = CallListContainers(ns, p)
                    /\ \/ a = CallListPods(ns)
                       \/ \E p0 \in PodNames :
                            \/ a = CallListContainers(ns, p0)
                            \/ \E c \in ContainerNames :
                                 a = CallPod(ns, p0, c, NPerPod)
         \/ \E p \in PodNames :
              /\ b.sub = PodFolder(ns, p)
              /\ \E c \in ContainerNames :
                   \/ /\ b = CallPod(ns, p, c, 1)
                      /\ \/ a = CallListContainers(ns, p)
                         \/ \E c0 \in ContainerNames : a = CallPod(ns, p, c0, NPerPod)
                   \/ \E i \in 1..(NPerPod - 1) :
                        b = CallPod(ns, p, c, i + 1) /\ a = CallPod(ns, p, c, i)

IsPrefix(s, t) == Len(s) <= Len(t) /\ \A i \in 1..Len(s) : s[i] = t[i]

\* C16: every call, at the moment it begins, comes directly after the call the
\* strict order puts before it (namespace listing; the 14 global commands; per
\* namespace its 3 commands, then its pod listing, then per pod the container listing before that pod's
\* log commands); the namespaces are begun in the order returned; a namespace
\* is begun only when the pod, container and command loops of the one before
\* are exhausted.
C16_StrictTraversalOrder ==
    /\ (outcomes = <<>> /\ status = "none") => Follows(prev_call, LastCall)
    /\ IsPrefix(started, namespaces_list.items)
    /\ (Len(started) >= 2 /\ callee = "run_cmd"
          /\ subfolder = NamespaceFolder(namespace))
         => /\ namespace = namespaces_list.items[Len(started)]
            /\ pi > Len(pods)
            /\ pods # <<>> => ki > Len(containers.items)
            /\ (pods # <<>> /\ containers.items # <<>>) => li > NPerPod

C16_Witness ==
    /\ Len(started) = 2 /\ started[1] # started[2]
    /\ LastCall = CallNs(started[2], 1)
    /\ prev_call = CallPod(started[1], <<"q">>, <<"d">>, NPerPod)

AllFailed(os) ==
    os # <<>> /\ \A i \in 1..Len(os) : os[i] \in {"nonzero", "timeout"}

\* C17: a command or a listing that fails on every attempt (non-zero exit or
\* timeout) has slept exactly 1, 2, 4, 8, 16 in 5 attempts when the call is
\* over, and the failure is recorded and not raised: FAIL and the output file
\* for run_cmd, an empty list for get_kubectl_list.
C17_ExhaustionIsRecordedNotRaised ==
    (callee # "none" /\ frame = "main" /\ AllFailed(outcomes))
        => /\ Len(outcomes) = 5
           /\ sleeps = <<1, 2, 4, 8, 16>>
           /\ status = "FAIL"
           /\ exc # "TimeoutExpired"
           /\ callee = "run_cmd"
                => (opened = 1 /\ (tmp_exists => OutputPath(subfolder, cmd) \in files))
           /\ callee = "get_kubectl_list" => ret = Some(<<>>)

\* C18: the output file of run_cmd(c, s) is s, a slash, and c with every space
\* turned into an underscore; the files present are exactly those of the
\* commands run, so two different commands with the same underscored form in the
\* same subfolder share one file; 'kubectl get all -o wide --namespace foo'
\* gives 'kubectl_get_all_-o_wide_--namespace_foo'.
C18_OutputFileIsUnderscoredCommand ==
    LET U(c) == [i \in 1..Len(c) |-> IF c[i] = " " THEN "_" ELSE c[i]]
        FileOf(s, c) == s \o <<"/">> \o U(c)
    IN /\ (callee = "run_cmd" /\ tmp_exists) => FileOf(subfolder, cmd) \in files
       /\ (frame = "main" /\ tmp_exists)
            => files = {FileOf(e[1], e[2]) : e \in executed}
       /\ (callee = "run_cmd" /\ tmp_exists /\ cmd = ExampleCmd
             /\ subfolder = <<"global">>)
            => <<"global", "/", "kubectl", "_", "get", "_", "all", "_", "-o", "_",
                 "wide", "_", "--namespace", "_", "foo">> \in files

C18_Witness ==
    /\ frame = "main" /\ tmp_exists /\ invocations = 2
    /\ executed = {<<GlobalFolder, <<" ">>>>, <<GlobalFolder, <<"_">>>>}
    /\ files = {<<"global", "/", "_">>}

\* C19: every call of run_cmd and of get_kubectl_list begins with delay 1 and
\* count 0 whatever happened in earlier calls; the delay and the count depend on
\* the attempts of the running call alone, so its first sleep is 1; and FAIL is
\* reported only after 5 attempts of that call.
C19_RetryStateIsPerInvocation ==
    /\ (frame \in {"run_cmd", "get_kubectl_list"} /\ outcomes = <<>>)
         => (backoff_timer = 1 /\ backoff_count = 0 /\ sleeps = <<>>)
    /\ callee # "none"
         => (backoff_count = Len(sleeps) /\ backoff_timer = 2^Len(sleeps))
    /\ sleeps # <<>> => sleeps[1] = 1
    /\ status = "FAIL" => (Len(outcomes) = 5 /\ AllNonzero(outcomes))

C19_Witness ==
    /\ listing_failed
    /\ callee = "run_cmd" /\ frame = "main" /\ status = "FAIL"
    /\ sleeps = <<1, 2, 4, 8, 16>>
    /\ invocations >= 2

====
